---- MODULE Spec2Model ----
(***************************************************************************)
(* Token overlay of the tokenisation workshop: the admission validator     *)
(* (TokenTopicManager), the two ingestion paths (TokenLookupService's      *)
(* outputAdmittedByTopic and POST /submit-token of index.ts) and the       *)
(* MongoDB-backed UTXO index (TokenStorageManager).                        *)
(*                                                                         *)
(* Byte arrays (number[]) are sequences of 0..255.  A JavaScript string is  *)
(* the sequence of its character codes; a hex string is the sequence of    *)
(* its hex digits 0..15.                                                   *)
(***************************************************************************)
EXTENDS Integers, Sequences, FiniteSets, TLC

VARIABLES
    store,        \* the 'tokens' collection, in natural (insertion) order
    now,          \* the clock read by new Date()
    uniqueIndex,  \* the unique index on (txid, outputIndex) exists
    outcome,      \* how the last notification ended: an admission "stored",
                  \* "DuplicateOutput" (storeToken threw) or "skipped" (storeToken
                  \* was not called); a spend notification "spent"; any of them
                  \* "StorageFailure" when the database could not be reached
    everSpent,    \* history: keys whose record has been seen with spent = true
    tmInput,      \* identifyAdmissibleOutputs: the transaction it was given
    tmResult,     \* identifyAdmissibleOutputs: the AdmittanceInstructions returned
    lookupResult, \* lookup: the last question and what the caller got back
    submit,       \* POST /submit-token: the request being served and its response
    wallet,       \* the wallet app: its last transfer
    earlySpent,   \* history: keys for which a spend notification arrived while
                  \* no record of the key was stored
    poll,         \* submitToOverlay: where the call under way stands
    codec         \* an amount, the buffer encoded from it and the amount parsed back

vars == <<store, now, uniqueIndex, outcome, everSpent, tmInput, tmResult, lookupResult,
          submit, wallet, earlySpent, poll, codec>>

(***************************************************************************)
(* Bounds of the model.                                                    *)
(***************************************************************************)
MaxStore == 3     \* documents the collection may hold at once
MaxTime == 1      \* the clock runs 0..MaxTime

(***************************************************************************)
(* Byte-level helpers.                                                     *)
(***************************************************************************)
Zeros(n) == [i \in 1..n |-> 0]

\* Utils.toHex: two hex digits per byte, high nibble first.
ToHex(bytes) ==
    [i \in 1..(2 * Len(bytes)) |->
        IF i % 2 = 1 THEN bytes[(i + 1) \div 2] \div 16
                     ELSE bytes[i \div 2] % 16]

\* Utils.toUTF8 on the byte values used here: an ASCII byte is its own
\* character, any other byte decodes to U+FFFD.
ToUTF8(bytes) == [i \in 1..Len(bytes) |-> IF bytes[i] < 128 THEN bytes[i] ELSE 65533]

\* The amount buffer mint.ts builds: 8 bytes, least significant first.
RECURSIVE AmountBytes(_, _)
AmountBytes(n, k) == IF k = 0 THEN <<>> ELSE <<n % 256>> \o AmountBytes(n \div 256, k - 1)

AmountLE8(n) == AmountBytes(n, 8)

(***************************************************************************)
(* The same two loops on amounts up to 2^53.  A JavaScript number holding   *)
(* an integer below 2^53 is exact, and so are % 256, Math.floor(x / 256)    *)
(* and the sums of parseAmount on it; the integers of the model checker     *)
(* stop at 2^31, so such a number is the pair <<hi, lo>> of value           *)
(* hi * 2^28 + lo with 0 <= lo < 2^28.                                      *)
(***************************************************************************)
RECURSIVE Pow2(_)
Pow2(k) == IF k = 0 THEN 1 ELSE 2 * Pow2(k - 1)

Limb == Pow2(28)

\* remaining % 256
Mod256(n) == n[2] % 256

\* Math.floor(remaining / 256)
FloorDiv256(n) == <<n[1] \div 256, (n[1] % 256) * Pow2(20) + n[2] \div 256>>

\* buffer[i] * Math.pow(256, i)
TimesPow256(b, i) ==
    IF 8 * i < 28
    THEN <<b \div Pow2(28 - 8 * i), (b % Pow2(28 - 8 * i)) * Pow2(8 * i)>>
    ELSE <<b * Pow2(8 * i - 28), 0>>

\* amount += ...
PlusWide(a, b) == <<a[1] + b[1] + (a[2] + b[2]) \div Limb, (a[2] + b[2]) % Limb>>

RECURSIVE EncodeFrom(_, _, _)
EncodeFrom(remaining, i, count) ==
    IF i = 8 THEN <<>>
    ELSE <<IF i < count THEN Mod256(remaining) ELSE 0>>
         \o EncodeFrom(FloorDiv256(remaining), i + 1, count)

\* The loop stopping at six bytes (i < 6): the rest keeps the 0 of fill(0).
encodeAmountSixBytes(amount) == EncodeFrom(amount, 0, 6)

\* The amount loop of createTokenScript and createTransferScript
\* (encodeAmount of PROTOCOL.md): new Array(8).fill(0), then buffer[i] =
\* remaining % 256 and remaining = Math.floor(remaining / 256) for i = 0..7.
encodeAmount(amount) == EncodeFrom(amount, 0, 8)

\* parseAmount (decodeAmount of PROTOCOL.md) on an 8-byte buffer.
RECURSIVE DecodeFrom(_, _)
DecodeFrom(buffer, i) ==
    IF i = 8 THEN <<0, 0>>
    ELSE IF buffer[i + 1] = 0 THEN DecodeFrom(buffer, i + 1)
    ELSE PlusWide(TimesPow256(buffer[i + 1], i), DecodeFrom(buffer, i + 1))

decodeAmount(buffer) == DecodeFrom(buffer, 0)

\* NaN of JavaScript arithmetic (undefined * number), kept apart from every amount.
NaN == 0 - 1

RECURSIVE Pow256(_)
Pow256(i) == IF i = 0 THEN 1 ELSE 256 * Pow256(i - 1)

\* parseAmount: sum of buffer[i] * 256^i for i = 0..7; reading past the end of
\* the buffer gives undefined, and the sum is NaN.  (A zero byte adds nothing
\* and is passed over without raising 256 to its power.)
RECURSIVE ParseAmountFrom(_, _)
ParseAmountFrom(buffer, i) ==
    IF i = 8 THEN 0
    ELSE IF buffer[i + 1] = 0 THEN ParseAmountFrom(buffer, i + 1)
    ELSE buffer[i + 1] * Pow256(i) + ParseAmountFrom(buffer, i + 1)

parseAmount(buffer) == IF Len(buffer) < 8 THEN NaN ELSE ParseAmountFrom(buffer, 0)

(***************************************************************************)
(* JSON.parse, on the texts that occur as field contents in this model.     *)
(* Every other text of the model (key bytes, amount bytes, identifiers,     *)
(* '{not json') is not JSON and makes JSON.parse throw.                     *)
(***************************************************************************)
TOKEN == <<84, 79, 75, 69, 78>>

\* {"name":"goose","symbol":"GOOSE","decimals":5,"description":"something nice"}
GooseJson ==
    <<123, 34, 110, 97, 109, 101, 34, 58, 34, 103, 111, 111, 115, 101, 34, 44,
      34, 115, 121, 109, 98, 111, 108, 34, 58, 34, 71, 79, 79, 83, 69, 34, 44,
      34, 100, 101, 99, 105, 109, 97, 108, 115, 34, 58, 53, 44,
      34, 100, 101, 115, 99, 114, 105, 112, 116, 105, 111, 110, 34, 58,
      34, 115, 111, 109, 101, 116, 104, 105, 110, 103, 32, 110, 105, 99, 101, 34, 125>>

\* {}
EmptyObjJson == <<123, 125>>

\* {not json
NotJson == <<123, 110, 111, 116, 32, 106, 115, 111, 110>>

\* A value no JavaScript property holds when it is absent.
Undefined == "undefined"

GooseObject ==
    [kind |-> "object", name |-> "goose", symbol |-> "GOOSE", decimals |-> 5,
     description |-> "something nice"]

\* An object without properties: every property read gives undefined
\* (decimals - 1 stands for an absent number).
EmptyObject ==
    [kind |-> "object", name |-> Undefined, symbol |-> Undefined, decimals |-> 0 - 1,
     description |-> Undefined]

NoMetadata == [kind |-> "undefined"]

JSONParse(text) ==
    IF text = GooseJson THEN [throws |-> FALSE, value |-> GooseObject]
    ELSE IF text = EmptyObjJson THEN [throws |-> FALSE, value |-> EmptyObject]
    ELSE [throws |-> TRUE, value |-> NoMetadata]

(***************************************************************************)
(* BigNumber arithmetic of the topic manager.                              *)
(***************************************************************************)
\* Reader.readUInt64LEBn over a field: the little-endian value of its first
\* (up to) 8 bytes.
RECURSIVE ReadLE(_, _)
ReadLE(bytes, i) ==
    IF i > Len(bytes) \/ i > 8 THEN 0
    ELSE IF bytes[i] = 0 THEN ReadLE(bytes, i + 1)
    ELSE bytes[i] * Pow256(i - 1) + ReadLE(bytes, i + 1)

readUInt64LEBn(bytes) == ReadLE(bytes, 1)

\* BigNumber.toString(): the decimal digits.
RECURSIVE DecimalString(_)
DecimalString(n) == IF n < 10 THEN <<n>> ELSE DecimalString(n \div 10) \o <<n % 10>>

\* Number.MAX_SAFE_INTEGER = 9007199254740991, as its decimal digits.
MaxSafeIntegerString == <<9, 0, 0, 7, 1, 9, 9, 2, 5, 4, 7, 4, 0, 9, 9, 1>>

\* a < b on two BigNumber objects: JavaScript's relational comparison turns
\* both objects into primitives (their toString()) and compares the two
\* strings code unit by code unit.
RECURSIVE StringLess(_, _)
StringLess(a, b) ==
    IF b = <<>> THEN FALSE
    ELSE IF a = <<>> THEN TRUE
    ELSE IF Head(a) # Head(b) THEN Head(a) < Head(b)
    ELSE StringLess(Tail(a), Tail(b))

\* amount < new BigNumber(0) || amount > new BigNumber(BigInt(MAX_SAFE_INTEGER))
AmountOutOfRange(amount) ==
    \/ StringLess(DecimalString(amount), DecimalString(0))
    \/ StringLess(MaxSafeIntegerString, DecimalString(amount))

(***************************************************************************)
(* TokenTopicManager.identifyAdmissibleOutputs.                             *)
(*                                                                         *)
(* An output is [script, decodes, fields, satoshis]: decodes tells whether  *)
(* PushDrop.decode(lockingScript) returns, fields is the field list it      *)
(* returns.                                                                *)
(***************************************************************************)
\* '0000...0001', the one tokenId the topic manager accepts.
ExpectedTokenIdHex == ToHex(Zeros(31) \o <<1>>)

\* The per-output checks without the comparison of field1Value.
OutputAcceptedAnyTokenId(output) ==
    LET fields == output.fields IN
    /\ output.decodes
    /\ ~(Len(fields) < 5)
    /\ ToUTF8(fields[1]) = ToUTF8(TOKEN)
    /\ ~AmountOutOfRange(readUInt64LEBn(fields[3]))
    /\ LET parsed == JSONParse(ToUTF8(fields[4])) IN
        /\ ~parsed.throws
        /\ parsed.value.kind = "object"
        /\ parsed.value.name = "goose"
        /\ parsed.value.symbol = "GOOSE"
        /\ parsed.value.decimals = 5
        /\ parsed.value.description = "something nice"

\* The body of the per-output try block: TRUE when the output is pushed on
\* outputsToAdmit, FALSE on every continue and on every throw.
OutputAccepted(output) ==
    LET fields == output.fields IN
    /\ output.decodes
    /\ ~(Len(fields) < 5)
    /\ ToUTF8(fields[1]) = ToUTF8(TOKEN)
    /\ ToHex(fields[2]) = ExpectedTokenIdHex
    /\ ~AmountOutOfRange(readUInt64LEBn(fields[3]))
    /\ LET parsed == JSONParse(ToUTF8(fields[4])) IN
        /\ ~parsed.throws
        /\ parsed.value.kind = "object"
        /\ parsed.value.name = "goose"
        /\ parsed.value.symbol = "GOOSE"
        /\ parsed.value.decimals = 5
        /\ parsed.value.description = "something nice"

\* The loop without the inner try/catch: the first output that fails ends it.
RECURSIVE ScanOutputsStopAtFailure(_, _, _)
ScanOutputsStopAtFailure(outputs, i, outputsToAdmit) ==
    IF ~(i < Len(outputs)) THEN outputsToAdmit
    ELSE IF OutputAccepted(outputs[i + 1])
         THEN ScanOutputsStopAtFailure(outputs, i + 1, Append(outputsToAdmit, i))
         ELSE outputsToAdmit

\* The loop pushing i + 1 in the place of i.
RECURSIVE ScanOutputsOneBased(_, _, _)
ScanOutputsOneBased(outputs, i, outputsToAdmit) ==
    IF ~(i < Len(outputs)) THEN outputsToAdmit
    ELSE ScanOutputsOneBased(outputs, i + 1,
            IF OutputAccepted(outputs[i + 1]) THEN Append(outputsToAdmit, i + 1)
            ELSE outputsToAdmit)

\* for (let i = 0; i < tx.outputs.length; i++): i is the 0-based index.
RECURSIVE ScanOutputs(_, _, _)
ScanOutputs(outputs, i, outputsToAdmit) ==
    IF ~(i < Len(outputs)) THEN outputsToAdmit
    ELSE ScanOutputs(outputs, i + 1,
            IF OutputAccepted(outputs[i + 1]) THEN Append(outputsToAdmit, i)
            ELSE outputsToAdmit)

\* The function without its outer try/catch: the error of Transaction.fromBEEF
\* reaches the caller.
identifyAdmissibleOutputsUncaught(tx) ==
    [outputsToAdmit |-> IF tx.parses THEN ScanOutputs(tx.outputs, 0, <<>>) ELSE <<>>,
     coinsToRetain |-> <<>>,
     throws |-> ~tx.parses]

\* tx is [parses, outputs]: parses tells whether Transaction.fromBEEF returns.
\* Its error is caught by the outer try block, and the function returns the
\* (empty) outputsToAdmit; throws tells whether an error reaches the caller.
identifyAdmissibleOutputs(tx) ==
    [outputsToAdmit |-> IF tx.parses THEN ScanOutputs(tx.outputs, 0, <<>>) ELSE <<>>,
     coinsToRetain |-> <<>>,
     throws |-> FALSE]

(***************************************************************************)
(* TokenStorageManager over the 'tokens' collection.  The collection is a   *)
(* sequence of TokenRecord documents in natural order; every operator       *)
(* takes the collection it reads and returns the one it leaves.             *)
(***************************************************************************)
SameKey(record, txid, outputIndex) ==
    record.txid = txid /\ record.outputIndex = outputIndex

HasKey(collection, txid, outputIndex) ==
    \E j \in 1..Len(collection) : SameKey(collection[j], txid, outputIndex)

\* The first document a { txid, outputIndex } filter matches, 0 when none does.
FirstMatch(collection, txid, outputIndex) ==
    IF HasKey(collection, txid, outputIndex)
    THEN CHOOSE j \in 1..Len(collection) :
            /\ SameKey(collection[j], txid, outputIndex)
            /\ \A k \in 1..(j - 1) : ~SameKey(collection[k], txid, outputIndex)
    ELSE 0

\* insertOne without the unique index: the document is always written.
insertOneUnchecked(collection, unique, doc) ==
    [error |-> "none", collection |-> Append(collection, doc)]

\* An upsert in the place of insertOne: the document replaces the one stored
\* under its key.
insertOneUpsert(collection, unique, doc) ==
    LET j == FirstMatch(collection, doc.txid, doc.outputIndex) IN
    IF j = 0 THEN [error |-> "none", collection |-> Append(collection, doc)]
    ELSE [error |-> "none", collection |-> [collection EXCEPT ![j] = doc]]

\* collection.insertOne: with the unique index in place a second document
\* with the same (txid, outputIndex) is refused with a duplicate-key error
\* and nothing is written.
insertOne(collection, unique, doc) ==
    IF unique /\ HasKey(collection, doc.txid, doc.outputIndex)
    THEN [error |-> "DuplicateOutput", collection |-> collection]
    ELSE [error |-> "none", collection |-> Append(collection, doc)]

storeToken(collection, unique, txid, outputIndex, tokenId, amount, metadata, lockingScript, satoshis, date) ==
    insertOne(collection, unique,
        [txid |-> txid, outputIndex |-> outputIndex, tokenId |-> tokenId,
         amount |-> amount, metadata |-> metadata, lockingScript |-> lockingScript,
         satoshis |-> satoshis, createdAt |-> date, spent |-> FALSE])

\* updateMany({ txid }, ...): the filter without outputIndex.
markAsSpentWholeTransaction(collection, txid, outputIndex) ==
    [j \in 1..Len(collection) |->
        IF collection[j].txid = txid THEN [collection[j] EXCEPT !.spent = TRUE]
        ELSE collection[j]]

\* An update that flips the flag: { $set: { spent: !spent } }.
markAsSpentToggle(collection, txid, outputIndex) ==
    LET j == FirstMatch(collection, txid, outputIndex) IN
    IF j = 0 THEN collection ELSE [collection EXCEPT ![j].spent = ~collection[j].spent]

\* updateOne with { upsert: true }: without a match a document is created.
markAsSpentUpsert(collection, txid, outputIndex) ==
    LET j == FirstMatch(collection, txid, outputIndex) IN
    IF j = 0
    THEN Append(collection,
            [txid |-> txid, outputIndex |-> outputIndex, tokenId |-> <<>>, amount |-> 0,
             metadata |-> NoMetadata, lockingScript |-> <<>>, satoshis |-> 0,
             createdAt |-> 0, spent |-> TRUE])
    ELSE [collection EXCEPT ![j].spent = TRUE]

\* An update that also clears the amount: { $set: { spent: true, amount: 0 } }.
markAsSpentZeroing(collection, txid, outputIndex) ==
    LET j == FirstMatch(collection, txid, outputIndex) IN
    IF j = 0 THEN collection
    ELSE [collection EXCEPT ![j].spent = TRUE, ![j].amount = 0]

\* updateOne({ txid, outputIndex }, { $set: { spent: true } })
markAsSpent(collection, txid, outputIndex) ==
    LET j == FirstMatch(collection, txid, outputIndex) IN
    IF j = 0 THEN collection ELSE [collection EXCEPT ![j].spent = TRUE]

\* deleteOne({ txid }): the filter without outputIndex.
deleteTokenByTxid(collection, txid, outputIndex) ==
    LET matches == {j \in 1..Len(collection) : collection[j].txid = txid} IN
    IF matches = {} THEN collection
    ELSE LET j == CHOOSE x \in matches : \A y \in matches : x <= y
         IN SubSeq(collection, 1, j - 1) \o SubSeq(collection, j + 1, Len(collection))

\* deleteOne({ txid, outputIndex })
deleteToken(collection, txid, outputIndex) ==
    LET j == FirstMatch(collection, txid, outputIndex) IN
    IF j = 0 THEN collection
    ELSE SubSeq(collection, 1, j - 1) \o SubSeq(collection, j + 1, Len(collection))

\* find({ tokenId }): the filter without spent.
findByTokenId(collection, tokenId) ==
    SelectSeq(collection, LAMBDA r : r.tokenId = tokenId)

\* find({ tokenId, spent: false }).toArray()
UnspentOf(record, tokenId) == record.tokenId = tokenId /\ record.spent = FALSE

findUnspentByTokenId(collection, tokenId) ==
    SelectSeq(collection, LAMBDA r : UnspentOf(r, tokenId))

\* sum + record.amount in JavaScript numbers.
Plus(a, b) == IF a = NaN \/ b = NaN THEN NaN ELSE a + b

\* records.reduce((sum, record) => sum + record.amount, 0)
RECURSIVE SumAmounts(_, _)
SumAmounts(records, sum) ==
    IF records = <<>> THEN sum
    ELSE SumAmounts(Tail(records), Plus(sum, Head(records).amount))

\* The metadata of the first record that has any.
AnyMetadata(records) ==
    LET with == SelectSeq(records, LAMBDA r : r.metadata.kind = "object")
    IN IF with = <<>> THEN EmptyObject ELSE with[1].metadata

\* records[0]?.metadata || {}
FirstMetadata(records) ==
    IF records = <<>> \/ records[1].metadata.kind # "object" THEN EmptyObject
    ELSE records[1].metadata

\* metadata.decimals || 0
DecimalsOrZero(metadata) == IF metadata.decimals < 0 THEN 0 ELSE metadata.decimals

Utxo(record) ==
    [txid |-> record.txid, outputIndex |-> record.outputIndex, amount |-> record.amount]

TokenBalance(tokenId, records) ==
    [tokenId |-> tokenId,
     name |-> FirstMetadata(records).name,
     symbol |-> FirstMetadata(records).symbol,
     decimals |-> DecimalsOrZero(FirstMetadata(records)),
     totalAmount |-> SumAmounts(records, 0),
     utxos |-> [j \in 1..Len(records) |-> Utxo(records[j])]]

getBalance(collection, tokenId) ==
    TokenBalance(tokenId, findUnspentByTokenId(collection, tokenId))

\* The tokenIds of the unspent documents, each once, in the order the Map of
\* getAllBalances first sees them.
RECURSIVE TokenIdsInOrder(_, _)
TokenIdsInOrder(records, seen) ==
    IF records = <<>> THEN seen
    ELSE TokenIdsInOrder(Tail(records),
            IF \E j \in 1..Len(seen) : seen[j] = Head(records).tokenId THEN seen
            ELSE Append(seen, Head(records).tokenId))

\* find({}) in the place of find({ spent: false }).
getAllBalancesOfAllRecords(collection) ==
    LET tokenIds == TokenIdsInOrder(collection, <<>>)
    IN [g \in 1..Len(tokenIds) |->
            TokenBalance(tokenIds[g],
                SelectSeq(collection, LAMBDA r : r.tokenId = tokenIds[g]))]

\* find({ spent: false }), grouped by tokenId, one TokenBalance per group.
getAllBalances(collection) ==
    LET records == SelectSeq(collection, LAMBDA r : r.spent = FALSE)
        tokenIds == TokenIdsInOrder(records, <<>>)
    IN [g \in 1..Len(tokenIds) |->
            TokenBalance(tokenIds[g],
                SelectSeq(records, LAMBDA r : r.tokenId = tokenIds[g]))]

\* sort({ createdAt: -1 }): newest first, documents of one instant in natural order.
RECURSIVE SortNewestFirst(_, _)
SortNewestFirst(records, sorted) ==
    IF records = <<>> THEN sorted
    ELSE LET r == Head(records)
             before == SelectSeq(sorted, LAMBDA x : x.createdAt >= r.createdAt)
             after == SelectSeq(sorted, LAMBDA x : x.createdAt < r.createdAt)
         IN SortNewestFirst(Tail(records), before \o <<r>> \o after)

\* getHistory(tokenId, limit = 50)
DefaultHistoryLimit == 50

\* cursor.limit(limit): a limit of 0 is MongoDB's 'no limit'.
getHistory(collection, tokenId, limit) ==
    LET found == SortNewestFirst(SelectSeq(collection, LAMBDA r : r.tokenId = tokenId), <<>>)
    IN IF limit = 0 THEN found
       ELSE SubSeq(found, 1, IF limit < Len(found) THEN limit ELSE Len(found))

\* ensureIndexes, first createIndex: building a unique index over a collection
\* that already holds two documents with one key fails, and no index exists.
NoDuplicateKeys(collection) ==
    \A j, k \in 1..Len(collection) :
        SameKey(collection[j], collection[k].txid, collection[k].outputIndex) => j = k

createIndex(collection, unique) == unique \/ NoDuplicateKeys(collection)

\* GET /token-balances?ownerKey=K: the handler passes ownerKey to
\* getAllBalances, which declares no parameter.
tokenBalances(collection, ownerKey) == getAllBalances(collection)

(***************************************************************************)
(* TokenLookupService.lookup.  A query is [type, tokenId, limit]; a result  *)
(* is [throws, value, collection]: throws tells whether an error reaches    *)
(* the caller, value is the array returned, collection is the collection    *)
(* as the call leaves it.                                                   *)
(***************************************************************************)
\* Date.toISOString(): the text of the instant.
ToISOString(date) == <<"iso", date>>

\* case 'balance'
BalanceAnswer(collection, query) ==
    LET balance == getBalance(collection, query.tokenId) IN
    [u \in 1..Len(balance.utxos) |->
        [txid |-> balance.utxos[u].txid, outputIndex |-> balance.utxos[u].outputIndex,
         amount |-> balance.utxos[u].amount, tokenId |-> balance.tokenId,
         name |-> balance.name, symbol |-> balance.symbol, decimals |-> balance.decimals]]

\* case 'balances'
BalancesAnswer(collection) ==
    LET balances == getAllBalances(collection) IN
    [b \in 1..Len(balances) |->
        [tokenId |-> balances[b].tokenId, name |-> balances[b].name,
         symbol |-> balances[b].symbol, decimals |-> balances[b].decimals,
         totalAmount |-> balances[b].totalAmount, utxoCount |-> Len(balances[b].utxos)]]

\* query.limit when the question carries none (undefined).
NoLimit == 0 - 1

\* case 'history': an absent query.limit takes getHistory's default.
HistoryAnswer(collection, query) ==
    LET history == getHistory(collection, query.tokenId,
                        IF query.limit = NoLimit THEN DefaultHistoryLimit ELSE query.limit)
    IN [h \in 1..Len(history) |->
        [txid |-> history[h].txid, outputIndex |-> history[h].outputIndex,
         tokenId |-> history[h].tokenId, amount |-> history[h].amount,
         spent |-> history[h].spent, createdAt |-> ToISOString(history[h].createdAt)]]

\* case 'utxos'
UtxosAnswer(collection, query) ==
    LET records == findUnspentByTokenId(collection, query.tokenId) IN
    [r \in 1..Len(records) |->
        [txid |-> records[r].txid, outputIndex |-> records[r].outputIndex,
         amount |-> records[r].amount, lockingScript |-> records[r].lockingScript,
         satoshis |-> records[r].satoshis]]

QueryTypes == {"balance", "balances", "history", "utxos"}

\* The switch of lookup: what a case returns when its storage call succeeds.
Answer(collection, query) ==
    IF query.type = "balance" THEN BalanceAnswer(collection, query)
    ELSE IF query.type = "balances" THEN BalancesAnswer(collection)
    ELSE IF query.type = "history" THEN HistoryAnswer(collection, query)
    ELSE UtxosAnswer(collection, query)

\* lookup without its try/catch: the error of the storage call, and the
\* Error of the default case, reach the caller.
lookupUncaught(collection, query, storageFails) ==
    IF query.type \notin QueryTypes \/ storageFails
    THEN [throws |-> TRUE, value |-> <<>>, collection |-> collection]
    ELSE [throws |-> FALSE, value |-> Answer(collection, query), collection |-> collection]

\* A utxos case that reserves what it returns: findOneAndUpdate-style, the
\* records handed out are marked spent.
lookupReserving(collection, query, storageFails) ==
    IF query.type \notin QueryTypes \/ storageFails
    THEN [throws |-> FALSE, value |-> <<>>, collection |-> collection]
    ELSE [throws |-> FALSE, value |-> Answer(collection, query),
          collection |->
            IF query.type = "utxos"
            THEN [j \in 1..Len(collection) |->
                    IF collection[j].tokenId = query.tokenId
                    THEN [collection[j] EXCEPT !.spent = TRUE]
                    ELSE collection[j]]
            ELSE collection]

\* lookup: the default case throws 'Unknown query type', a failing storage
\* call rejects; the catch logs either error and returns [].  Every case
\* only reads (find, toArray, sort and limit on the cursor).
lookup(collection, query, storageFails) ==
    IF query.type \notin QueryTypes \/ storageFails
    THEN [throws |-> FALSE, value |-> <<>>, collection |-> collection]
    ELSE [throws |-> FALSE, value |-> Answer(collection, query), collection |-> collection]

\* What the promise of outputAdmittedByTopic, outputSpent or outputEvicted
\* does, whatever the outcome: each handler's body is one try block whose
\* catch logs the error, so the promise always resolves.
NotificationResult(how) == "resolved"

(***************************************************************************)
(* The transactions the overlay is shown.  A txid names one transaction,    *)
(* so the outputs under a txid never change.                                *)
(***************************************************************************)
TokenIdBytes(n) == Zeros(31) \o <<n>>

\* Two compressed public keys (33 bytes).
LockingKey == <<2>> \o Zeros(32)

OwnerKey == <<3>> \o Zeros(32)

RecipientKey == <<3>> \o Zeros(31) \o <<1>>

Output(script, fields) ==
    [script |-> script, decodes |-> TRUE, fields |-> fields, satoshis |-> 1]

TxIds == {"tx1", "tx2"}

\* tx1: outputs whose decoded fields start with the protocol marker.
\* tx2: outputs whose decoded fields start with the locking key.
ChainOutputs(txid) ==
    IF txid = "tx1" THEN
        << Output(<<17>>, <<TOKEN, TokenIdBytes(1), AmountLE8(700), GooseJson, NotJson>>),
           Output(<<18>>, <<TOKEN, TokenIdBytes(1), AmountLE8(0), GooseJson, EmptyObjJson>>),
           Output(<<19>>, <<TOKEN, TokenIdBytes(1), AmountLE8(700), OwnerKey>>) >>
    ELSE
        << Output(<<33>>, <<LockingKey, TOKEN, TokenIdBytes(1), AmountLE8(300), OwnerKey, NotJson>>),
           Output(<<34>>, <<LockingKey, TOKEN, TokenIdBytes(2), AmountLE8(700), RecipientKey, GooseJson>>),
           Output(<<35>>, <<LockingKey, TOKEN, TokenIdBytes(2), AmountLE8(0), OwnerKey>>) >>

Keys == {<<t, i>> : t \in TxIds, i \in 0..2}

\* PushDrop.decode({ script: hex, fieldFormat: 'buffer' }): the call form of
\* the lookup service and of /submit-token.  The repository's own decode
\* experiments report that the library throws on this form, its README shows
\* it returning the fields; both outcomes are possible.
DecodeOutcomes(output) == IF output.decodes THEN {TRUE, FALSE} ELSE {FALSE}

(***************************************************************************)
(* What the two ingestion paths read out of a decoded field list.           *)
(***************************************************************************)
\* let metadata = undefined; if (fields.length >= n) { try { metadata =
\* JSON.parse(toUTF8(fields[n - 1])) } catch { /* ignore */ } }
OptionalMetadata(fields, n) ==
    IF Len(fields) >= n /\ ~JSONParse(ToUTF8(fields[n])).throws
    THEN JSONParse(ToUTF8(fields[n])).value
    ELSE NoMetadata

\* outputAdmittedByTopic: tokenId from fields[1], amount from fields[2],
\* ownerKey from fields[3] (undefined, here the empty string, without it),
\* metadata from fields[4]; reading a missing field throws.
LookupCandidate(fields) ==
    IF Len(fields) < 3 THEN [throws |-> TRUE]
    ELSE [throws |-> FALSE,
          tokenId |-> ToHex(fields[2]),
          amount |-> parseAmount(fields[3]),
          ownerKey |-> IF Len(fields) >= 4 THEN ToHex(fields[4]) ELSE <<>>,
          metadata |-> OptionalMetadata(fields, 5)]

\* POST /submit-token: the checks that end in continue.
SubmitAccepts(fields) ==
    /\ ~(Len(fields) < 5)
    /\ ToUTF8(fields[2]) = ToUTF8(TOKEN)
    /\ Len(ToHex(fields[1])) = 66
    /\ Len(ToHex(fields[3])) = 64
    /\ Len(fields[4]) = 8
    /\ ~(parseAmount(fields[4]) <= 0)
    /\ Len(ToHex(fields[5])) = 66

SubmitCandidate(fields) ==
    [tokenId |-> ToHex(fields[3]),
     amount |-> parseAmount(fields[4]),
     ownerKey |-> ToHex(fields[5]),
     metadata |-> OptionalMetadata(fields, 6)]

(***************************************************************************)
(* The two paths applied to the outputs of the chain.                       *)
(***************************************************************************)
OutputAt(key) == ChainOutputs(key[1])[key[2] + 1]

\* The outputs identifyAdmissibleOutputs puts in outputsToAdmit.
TopicAdmitted ==
    {key \in Keys :
        LET admitted == identifyAdmissibleOutputs(
                            [parses |-> TRUE, outputs |-> ChainOutputs(key[1])]).outputsToAdmit
        IN \E a \in 1..Len(admitted) : admitted[a] = key[2]}

\* What outputAdmittedByTopic reads from each output.
LookupRead == [key \in Keys |-> LookupCandidate(OutputAt(key).fields)]

\* What /submit-token reads from each output, when its checks pass.
SubmitRead ==
    [key \in Keys |->
        IF SubmitAccepts(OutputAt(key).fields)
        THEN [accepted |-> TRUE] @@ SubmitCandidate(OutputAt(key).fields)
        ELSE [accepted |-> FALSE]]

(***************************************************************************)
(* State.                                                                  *)
(***************************************************************************)
NotRun == [outputsToAdmit |-> <<>>, coinsToRetain |-> <<>>, returned |-> FALSE, threw |-> FALSE]

NoTransaction == [parses |-> TRUE, outputs |-> <<>>]

NoQuery == [type |-> "none", tokenId |-> <<>>, limit |-> NoLimit]

\* No /submit-token request is being served.
NoRequest ==
    [txid |-> "none", outputIndex |-> 0, tokensFound |-> 0, duplicates |-> 0, status |-> 0]

\* Nothing has been encoded.
NoAmount == [stage |-> "none", amount |-> <<0, 0>>, buffer |-> <<>>, parsed |-> <<0, 0>>]

\* No submitToOverlay call is under way.
NoSubmission ==
    [state |-> "idle", txid |-> "none", attempt |-> 0, txFound |-> FALSE, posted |-> FALSE]

\* The wallet has made no transfer.
NoTransfer ==
    [done |-> FALSE, tokenId |-> <<>>, amount |-> 0, change |-> 0, utxos |-> <<>>,
     scripts |-> <<>>, tokensFound |-> 0, error |-> "none"]

NotAsked ==
    [asked |-> FALSE, query |-> NoQuery, storageFailed |-> FALSE, threw |-> FALSE, value |-> <<>>]

SpentKeys(collection) ==
    {<<collection[j].txid, collection[j].outputIndex>> :
        j \in {k \in 1..Len(collection) : collection[k].spent}}

\* A deployment on a database whose indexes an earlier start has built (the
\* createIndex calls of every later ensureIndexes change nothing).
Init ==
    /\ store = <<>>
    /\ now = 0
    /\ uniqueIndex = TRUE
    /\ outcome = "none"
    /\ everSpent = {}
    /\ tmInput = NoTransaction
    /\ tmResult = NotRun
    /\ lookupResult = NotAsked
    /\ submit = NoRequest
    /\ wallet = NoTransfer
    /\ earlySpent = {}
    /\ poll = NoSubmission
    /\ codec = NoAmount

\* The first start, on an empty database without indexes: the constructor
\* has started ensureIndexes and returned without awaiting it.
InitFresh ==
    /\ store = <<>>
    /\ now = 0
    /\ uniqueIndex = FALSE
    /\ outcome = "none"
    /\ everSpent = {}
    /\ tmInput = NoTransaction
    /\ tmResult = NotRun
    /\ lookupResult = NotAsked
    /\ submit = NoRequest
    /\ wallet = NoTransfer
    /\ earlySpent = {}
    /\ poll = NoSubmission
    /\ codec = NoAmount

(***************************************************************************)
(* Actions.  Every storage call is one request to the database and takes    *)
(* effect atomically.  /submit-token awaits one storeToken per output, and  *)
(* any number of requests may be in their loops at once, so the step of     *)
(* one output is an action of its own.                                      *)
(***************************************************************************)
\* new Date() moves on.
Tick ==
    /\ now < MaxTime
    /\ now' = now + 1
    /\ UNCHANGED <<store, uniqueIndex, outcome, everSpent, tmInput, tmResult, lookupResult, submit, wallet, earlySpent, poll, codec>>

\* The createIndex of an un-awaited ensureIndexes reaches the server (every
\* constructed TokenStorageManager sends one).
EnsureIndexes ==
    /\ ~uniqueIndex
    /\ uniqueIndex' = createIndex(store, uniqueIndex)
    /\ UNCHANGED <<store, now, outcome, everSpent, tmInput, tmResult, lookupResult, submit, wallet, earlySpent, poll, codec>>

\* The write both ingestion paths end in; the error of a refused insert is
\* caught by the caller's try block.  Both callers pass the ownerKey they
\* read as an eighth argument; storeToken declares seven parameters and the
\* document it inserts has no ownerKey.
Insert(key, candidate) ==
    LET output == OutputAt(key)
        r == storeToken(store, uniqueIndex, key[1], key[2], candidate.tokenId,
                        candidate.amount, candidate.metadata, ToHex(output.script),
                        output.satoshis, now)
    IN /\ Len(r.collection) <= MaxStore
       /\ store' = r.collection
       /\ outcome' = IF r.error = "none" THEN "stored" ELSE r.error

\* The overlay engine delivers outputAdmittedByTopic for an output the topic
\* manager admitted (and may deliver it again).  Without transaction data in
\* the payload, or when decoding throws, nothing is stored.
outputAdmittedByTopic(txid, outputIndex) ==
    LET key == <<txid, outputIndex>> IN
    /\ key \in TopicAdmitted
    /\ \E hasBeef \in BOOLEAN, decodeReturns \in DecodeOutcomes(OutputAt(key)) :
            IF hasBeef /\ decodeReturns /\ ~LookupRead[key].throws
            THEN Insert(key, LookupRead[key])
            ELSE outcome' = "skipped" /\ UNCHANGED store
    /\ UNCHANGED <<now, uniqueIndex, everSpent, tmInput, tmResult, lookupResult, submit, wallet, earlySpent, poll, codec>>

\* POST /submit-token, the body of its loop for one output: a decode that
\* throws, a failed check (continue) and a refused insert all go on to the
\* next output.
SubmitIteration(key) ==
    \E decodeReturns \in DecodeOutcomes(OutputAt(key)) :
        IF decodeReturns /\ SubmitRead[key].accepted
        THEN Insert(key, SubmitRead[key])
        ELSE outcome' = "skipped" /\ UNCHANGED store

\* POST /submit-token, one iteration of its loop over tx.outputs.
SubmitTokenOutput(txid, outputIndex) ==
    /\ SubmitIteration(<<txid, outputIndex>>)
    /\ UNCHANGED <<now, uniqueIndex, everSpent, tmInput, tmResult, lookupResult, submit, wallet, earlySpent, poll, codec>>

\* outputSpent -> markAsSpent; updateOne resolves whether or not a document
\* matched, and the handler logs 'Token spent'.
MarkSpent(txid, outputIndex) ==
    /\ store' = markAsSpent(store, txid, outputIndex)
    /\ everSpent' = everSpent \cup SpentKeys(store')
    /\ outcome' = "spent"

outputSpent(txid, outputIndex) ==
    /\ MarkSpent(txid, outputIndex)
    /\ UNCHANGED <<now, uniqueIndex, tmInput, tmResult, lookupResult, submit, wallet, earlySpent, poll, codec>>

\* outputSpent, with the history of early notifications kept.
outputSpentObserved(txid, outputIndex) ==
    /\ MarkSpent(txid, outputIndex)
    /\ earlySpent' = IF HasKey(store, txid, outputIndex) THEN earlySpent
                     ELSE earlySpent \cup {<<txid, outputIndex>>}
    /\ UNCHANGED <<now, uniqueIndex, tmInput, tmResult, lookupResult, submit, wallet, poll, codec>>

\* outputEvicted -> deleteToken
outputEvicted(txid, outputIndex) ==
    /\ store' = deleteToken(store, txid, outputIndex)
    /\ UNCHANGED <<now, uniqueIndex, outcome, everSpent, tmInput, tmResult, lookupResult, submit, wallet, earlySpent, poll, codec>>

Next ==
    \/ Tick
    \/ \E k \in Keys : outputAdmittedByTopic(k[1], k[2])
    \/ \E k \in Keys : SubmitTokenOutput(k[1], k[2])
    \/ \E k \in Keys : outputSpent(k[1], k[2])
    \/ \E k \in Keys : outputEvicted(k[1], k[2])

Spec == Init /\ [][Next]_vars

\* Notifications delivered in any order, a spend possibly before the
\* admission of its output.
NextOutOfOrder ==
    \/ \E k \in Keys : outputAdmittedByTopic(k[1], k[2])
    \/ \E k \in Keys : SubmitTokenOutput(k[1], k[2])
    \/ \E k \in Keys : outputSpentObserved(k[1], k[2])

SpecOutOfOrder == Init /\ [][NextOutOfOrder]_vars

(***************************************************************************)
(* POST /submit-token request by request: the handler fetches the           *)
(* transaction of the txid it is given, runs its loop over the outputs,     *)
(* counting the outputs it stored, and answers.                             *)
(***************************************************************************)
\* The txids a client may send: those of the chain, one the chain does not
\* know, and none.
RequestTxIds == TxIds \cup {"unknown", ""}

\* The request arrives: 400 without a txid, 404 when the transaction cannot
\* be fetched; otherwise tokensFound = 0 and the loop starts at output 0.
SubmitArrives(txid) ==
    /\ submit.txid = "none" \/ submit.status # 0
    /\ submit' = [txid |-> txid, outputIndex |-> 0, tokensFound |-> 0, duplicates |-> 0,
                  status |-> IF txid = "" THEN 400
                             ELSE IF txid \notin TxIds THEN 404
                             ELSE 0]

SubmitBegin(txid) ==
    /\ SubmitArrives(txid)
    /\ UNCHANGED <<store, now, uniqueIndex, outcome, everSpent, tmInput, tmResult,
                   lookupResult, wallet, earlySpent, poll, codec>>

\* One iteration of the loop: tokensFound++ is reached only after storeToken
\* returned.
SubmitStep ==
    /\ submit.txid \in TxIds /\ submit.status = 0
    /\ submit.outputIndex < Len(ChainOutputs(submit.txid))
    /\ SubmitIteration(<<submit.txid, submit.outputIndex>>)
    /\ submit' = [submit EXCEPT
            !.outputIndex = @ + 1,
            !.tokensFound = IF outcome' = "stored" THEN @ + 1 ELSE @,
            !.duplicates = IF outcome' = "DuplicateOutput" THEN @ + 1 ELSE @]
    /\ UNCHANGED <<now, uniqueIndex, everSpent, tmInput, tmResult, lookupResult, wallet, earlySpent, poll, codec>>

\* After the loop: 200 'success' when tokensFound > 0, else 400 'No token
\* outputs found in transaction'.
SubmitRespond ==
    /\ submit.txid \in TxIds /\ submit.status = 0
    /\ ~(submit.outputIndex < Len(ChainOutputs(submit.txid)))
    /\ submit' = [submit EXCEPT !.status = IF submit.tokensFound > 0 THEN 200 ELSE 400]
    /\ UNCHANGED <<store, now, uniqueIndex, outcome, everSpent, tmInput, tmResult,
                   lookupResult, wallet, earlySpent, poll, codec>>

NextSubmit ==
    \/ \E txid \in RequestTxIds : SubmitBegin(txid)
    \/ SubmitStep
    \/ SubmitRespond
    \/ \E k \in Keys : outputAdmittedByTopic(k[1], k[2])

SpecSubmit == Init /\ [][NextSubmit]_vars

(***************************************************************************)
(* Balances over outputs of one token minted with different metadata.       *)
(***************************************************************************)
DuckObject ==
    [kind |-> "object", name |-> "duck", symbol |-> "DUCK", decimals |-> 2,
     description |-> "something else"]

\* What an output of the token may carry as metadata: none, {}, or one of
\* two objects.
MetadataSamples == {NoMetadata, EmptyObject, GooseObject, DuckObject}

\* The three outputs of tx2 stored one after the other, each with one of the
\* metadata values.
StoredWith(m0, m1, m2) ==
    LET tokenId == ToHex(TokenIdBytes(1))
        first == storeToken(<<>>, TRUE, "tx2", 0, tokenId, 100, m0, ToHex(<<33>>), 1, 0)
        second == storeToken(first.collection, TRUE, "tx2", 1, tokenId, 200, m1,
                             ToHex(<<34>>), 1, 0)
        third == storeToken(second.collection, TRUE, "tx2", 2, tokenId, 300, m2,
                            ToHex(<<35>>), 1, 0)
    IN third.collection

InitBalances ==
    /\ store \in {StoredWith(m0, m1, m2) : m0, m1, m2 \in MetadataSamples}
    /\ now = 0
    /\ uniqueIndex = TRUE
    /\ outcome = "stored"
    /\ everSpent = {}
    /\ tmInput = NoTransaction
    /\ tmResult = NotRun
    /\ lookupResult = NotAsked
    /\ submit = NoRequest
    /\ wallet = NoTransfer
    /\ earlySpent = {}
    /\ poll = NoSubmission
    /\ codec = NoAmount

NextBalances ==
    \/ \E k \in Keys : outputSpent(k[1], k[2])
    \/ \E k \in Keys : outputEvicted(k[1], k[2])

SpecBalances == InitBalances /\ [][NextBalances]_vars

(***************************************************************************)
(* An amount encoded by the wallet and parsed by the lookup service.        *)
(***************************************************************************)
\* Amounts from 0 to 2^53 - 1, around the byte and limb boundaries.
AmountSamples ==
    {<<hi, lo>> : hi \in {0, 1, 15, 16, 4095, 4096, Pow2(20), Pow2(25) - 1},
                  lo \in {0, 1, 255, 256, 1000, 65535, 65536, Pow2(24), Limb - 1}}

InitAmount ==
    /\ store = <<>>
    /\ now = 0
    /\ uniqueIndex = TRUE
    /\ outcome = "none"
    /\ everSpent = {}
    /\ tmInput = NoTransaction
    /\ tmResult = NotRun
    /\ lookupResult = NotAsked
    /\ submit = NoRequest
    /\ wallet = NoTransfer
    /\ earlySpent = {}
    /\ poll = NoSubmission
    /\ codec \in {[NoAmount EXCEPT !.stage = "amount", !.amount = n] : n \in AmountSamples}

\* The wallet encodes the amount into its 8-byte buffer.
EncodeAmount ==
    /\ codec.stage = "amount"
    /\ codec' = [codec EXCEPT !.stage = "encoded", !.buffer = encodeAmount(codec.amount)]
    /\ UNCHANGED <<store, now, uniqueIndex, outcome, everSpent, tmInput, tmResult,
                   lookupResult, submit, wallet, earlySpent, poll>>

\* The lookup service parses the buffer.
ParseAmount ==
    /\ codec.stage = "encoded"
    /\ codec' = [codec EXCEPT !.stage = "parsed", !.parsed = decodeAmount(codec.buffer)]
    /\ UNCHANGED <<store, now, uniqueIndex, outcome, everSpent, tmInput, tmResult,
                   lookupResult, submit, wallet, earlySpent, poll>>

NextAmount == EncodeAmount \/ ParseAmount

SpecAmount == InitAmount /\ [][NextAmount]_vars

(***************************************************************************)
(* submitToOverlay of mint.ts and wallet.ts (the two are the same code):    *)
(* it polls WhatsOnChain for the transaction, posts the txid to             *)
(* /submit-token and reads the answer, all inside one try block.            *)
(***************************************************************************)
MaxAttempts == 6

\* What an error thrown inside the try block leads to: the catch warns
\* 'Could not submit to overlay' and the function returns.
submitToOverlayRethrow(message) == "thrown"

submitToOverlayCatch(message) == "returned"

\* mint or transfer calls submitToOverlay(txid) after its broadcast.
OverlayBegin(txid) ==
    /\ poll.state \in {"idle", "returned"}
    /\ poll' = [state |-> "polling", txid |-> txid, attempt |-> 0, txFound |-> FALSE,
                posted |-> FALSE]
    /\ UNCHANGED <<store, now, uniqueIndex, outcome, everSpent, tmInput, tmResult,
                   lookupResult, submit, wallet, earlySpent, codec>>

\* One pass of the for loop: the 5 s timer, then the fetch from
\* WhatsOnChain, which answers ok, answers not ok or rejects.  ok breaks out
\* of the loop; after the last pass without ok 'Transaction not found on
\* WhatsOnChain after 30 seconds' is thrown.
PollAttempt(response) ==
    /\ poll.state = "polling" /\ poll.attempt < MaxAttempts
    /\ poll' = [poll EXCEPT
            !.attempt = @ + 1,
            !.txFound = (response = "ok"),
            !.state = IF response = "ok" THEN "posting"
                      ELSE IF response = "rejects" THEN submitToOverlayCatch("fetch failed")
                      ELSE IF poll.attempt + 1 < MaxAttempts THEN "polling"
                      ELSE submitToOverlayCatch("Transaction not found")]
    /\ UNCHANGED <<store, now, uniqueIndex, outcome, everSpent, tmInput, tmResult,
                   lookupResult, submit, wallet, earlySpent, codec>>

\* fetch(OVERLAY_URL/submit-token, { txid }) reaches the server.
PostToOverlay ==
    /\ poll.state = "posting"
    /\ SubmitArrives(poll.txid)
    /\ poll' = [poll EXCEPT !.posted = TRUE, !.state = "awaiting"]
    /\ UNCHANGED <<store, now, uniqueIndex, outcome, everSpent, tmInput, tmResult,
                   lookupResult, wallet, earlySpent, codec>>

\* The same fetch rejecting: the overlay server cannot be reached.
PostFails ==
    /\ poll.state = "posting"
    /\ poll' = [poll EXCEPT !.posted = TRUE,
                            !.state = submitToOverlayCatch("fetch failed")]
    /\ UNCHANGED <<store, now, uniqueIndex, outcome, everSpent, tmInput, tmResult,
                   lookupResult, submit, wallet, earlySpent, codec>>

\* The answer of /submit-token arrives: response.ok logs 'Transaction
\* indexed', anything else throws error.error || 'Overlay submission failed'.
ReceiveResponse ==
    /\ poll.state = "awaiting" /\ submit.status # 0
    /\ poll' = [poll EXCEPT
            !.state = IF submit.status = 200 THEN "returned"
                      ELSE submitToOverlayCatch("Overlay submission failed")]
    /\ UNCHANGED <<store, now, uniqueIndex, outcome, everSpent, tmInput, tmResult,
                   lookupResult, submit, wallet, earlySpent, codec>>

PollResponses == {"ok", "not ok", "rejects"}

NextOverlay ==
    \/ \E txid \in TxIds \cup {"unknown"} : OverlayBegin(txid)
    \/ \E response \in PollResponses : PollAttempt(response)
    \/ PostToOverlay
    \/ PostFails
    \/ SubmitStep
    \/ SubmitRespond
    \/ ReceiveResponse

\* Timers fire, every fetch settles and the server answers each request.
SpecOverlay ==
    /\ Init /\ [][NextOverlay]_vars
    /\ WF_vars(\E response \in PollResponses : PollAttempt(response))
    /\ WF_vars(PostToOverlay \/ PostFails)
    /\ WF_vars(SubmitStep) /\ WF_vars(SubmitRespond) /\ WF_vars(ReceiveResponse)

(***************************************************************************)
(* The wallet.  A script is the sequence of its chunks: a push of some      *)
(* bytes or the opcode OP_DROP.  Keys and token ids, hex strings in the     *)
(* code, are given as the bytes they denote (the builders convert them      *)
(* with Utils.toArray(x, 'hex')).                                           *)
(***************************************************************************)
Push(data) == [op |-> "push", data |-> data]

OP_DROP == [op |-> "OP_DROP", data |-> <<>>]

\* mint.ts createTokenScript: <lockingKey> OP_DROP <data fields> OP_DROP,
\* the metadata always pushed.
createTokenScript(lockingPublicKey, tokenId, amount, identityKey, metadata) ==
    <<Push(lockingPublicKey), OP_DROP, Push(TOKEN), Push(tokenId), Push(AmountLE8(amount)),
      Push(identityKey), Push(metadata), OP_DROP>>

\* createTransferScript filling the amount buffer from its second byte on
\* (amountBuffer[i + 1] in the loop).
createTransferScriptShifted(tokenId, amount, recipientKey, lockingPublicKey, metadata) ==
    <<Push(lockingPublicKey), Push(TOKEN), Push(tokenId),
      Push(<<0>> \o SubSeq(AmountLE8(amount), 1, 7)), Push(recipientKey)>>
    \o (IF metadata = <<>> THEN <<>> ELSE <<Push(metadata)>>)
    \o <<OP_DROP>>

\* wallet.ts createTransferScript: Script.fromASM(fields.join(' ') +
\* ' OP_DROP'), the locking key being the first of the fields; metadata is
\* pushed when given (<<>> stands for none).
createTransferScript(tokenId, amount, recipientKey, lockingPublicKey, metadata) ==
    <<Push(lockingPublicKey), Push(TOKEN), Push(tokenId), Push(AmountLE8(amount)),
      Push(recipientKey)>>
    \o (IF metadata = <<>> THEN <<>> ELSE <<Push(metadata)>>)
    \o <<OP_DROP>>

\* The pushes of a script in order: the field list in the shape the checks
\* of /submit-token expect (locking key, 'TOKEN', tokenId, amount, owner).
PushedData(script) ==
    LET pushes == SelectSeq(script, LAMBDA c : c.op = "push")
    IN [j \in 1..Len(pushes) |-> pushes[j].data]

\* GET /token-utxos/:tokenId, which wallet.getTokenUTXOs fetches.
tokenUtxos(collection, tokenId) ==
    LET records == findUnspentByTokenId(collection, tokenId)
    IN [j \in 1..Len(records) |-> Utxo(records[j])]

\* The transaction a transfer broadcasts, and its two output positions.
TransferTxId == "tx3"

\* /submit-token on one output of the transfer transaction.
IndexTransferOutput(collection, unique, outputIndex, script, decodeReturns, date) ==
    LET fields == PushedData(script) IN
    IF decodeReturns /\ SubmitAccepts(fields)
    THEN storeToken(collection, unique, TransferTxId, outputIndex,
                    SubmitCandidate(fields).tokenId, SubmitCandidate(fields).amount,
                    SubmitCandidate(fields).metadata, ToHex(<<48 + outputIndex>>), 1000, date)
    ELSE [error |-> "skipped", collection |-> collection]

\* wallet.transfer(tokenId, amount, recipientAddress) with the branch in
\* which createAction returns a txid, then submitToOverlay -> POST
\* /submit-token for that txid.  The outputs are the recipient's and, when
\* change > 0, the sender's change; createAction is given outputs only
\* ('Token UTXO spending not yet implemented - creating new tokens'), so
\* the transaction spends none of the UTXOs read and no outputSpent follows.
Transfer(n, amount) ==
    LET tokenId == ToHex(TokenIdBytes(n))
        utxos == tokenUtxos(store, tokenId)
        totalAvailable == SumAmounts(utxos, 0)
        change == totalAvailable - amount
        recipientScript ==
            createTransferScript(TokenIdBytes(n), amount, RecipientKey, LockingKey, <<>>)
        changeScript ==
            createTransferScript(TokenIdBytes(n), change, OwnerKey, LockingKey, <<>>)
        scripts == IF change > 0 THEN <<recipientScript, changeScript>>
                   ELSE <<recipientScript>>
    IN /\ ~wallet.done
       /\ Len(utxos) # 0
       /\ totalAvailable # NaN /\ ~(totalAvailable < amount)
       /\ \E d0, d1 \in {TRUE, FALSE} :
            LET first == IndexTransferOutput(store, uniqueIndex, 0, recipientScript, d0, now)
                second == IF change > 0
                          THEN IndexTransferOutput(first.collection, uniqueIndex, 1,
                                                   changeScript, d1, now)
                          ELSE [error |-> "skipped", collection |-> first.collection]
                tokensFound == (IF first.error = "none" THEN 1 ELSE 0)
                               + (IF second.error = "none" THEN 1 ELSE 0)
            IN /\ change > 0 \/ d1      \* without change there is no second decode
               /\ Len(second.collection) <= MaxStore
               /\ store' = second.collection
               /\ outcome' = IF tokensFound > 0 THEN "stored" ELSE "skipped"
               /\ wallet' = [done |-> TRUE, tokenId |-> tokenId, amount |-> amount,
                             change |-> change, utxos |-> utxos, scripts |-> scripts,
                             tokensFound |-> tokensFound, error |-> "none"]
       /\ UNCHANGED <<now, uniqueIndex, everSpent, tmInput, tmResult, lookupResult, submit,
                      earlySpent, poll, codec>>

\* wallet.transfer throwing before it builds anything: 'No UTXOs found for
\* this token' when the overlay returned none (or could not be reached:
\* getTokenUTXOs returns [] on any error), 'Insufficient balance' when
\* their total is below the amount.
TransferFails(n, amount) ==
    LET tokenId == ToHex(TokenIdBytes(n))
        utxos == tokenUtxos(store, tokenId)
        totalAvailable == SumAmounts(utxos, 0)
    IN /\ ~wallet.done
       /\ Len(utxos) = 0 \/ (totalAvailable # NaN /\ totalAvailable < amount)
       /\ wallet' = [NoTransfer EXCEPT
                !.tokenId = tokenId, !.amount = amount, !.utxos = utxos,
                !.error = IF Len(utxos) = 0 THEN "No UTXOs found"
                          ELSE "Insufficient balance"]
       /\ UNCHANGED <<store, now, uniqueIndex, outcome, everSpent, tmInput, tmResult,
                      lookupResult, submit, earlySpent, poll, codec>>

\* The amounts the wallet is asked to send (the menu rejects 0 and NaN).
TransferAmounts == {100, 300}

NextTransfer ==
    \/ \E k \in Keys : outputAdmittedByTopic(k[1], k[2])
    \/ \E k \in Keys : SubmitTokenOutput(k[1], k[2])
    \/ \E n \in {1, 2}, amount \in TransferAmounts : Transfer(n, amount)
    \/ \E n \in {1, 2}, amount \in TransferAmounts : TransferFails(n, amount)

SpecTransfer == Init /\ [][NextTransfer]_vars

(***************************************************************************)
(* The lookup service answering questions while outputs are admitted and    *)
(* spent.                                                                   *)
(***************************************************************************)
\* The questions asked: only a history question carries a limit, and a
\* balances question (like one of an unknown type) reads no tokenId.
Queries ==
    {q \in [type : QueryTypes \cup {"transfer"},
            tokenId : {ToHex(TokenIdBytes(1)), ToHex(TokenIdBytes(2))},
            limit : {NoLimit, 1}] :
        /\ q.limit = NoLimit \/ q.type = "history"
        /\ q.tokenId = ToHex(TokenIdBytes(1)) \/ q.type \in {"balance", "history", "utxos"}}

\* One call of lookup(question); the storage call it awaits may fail.
Lookup(query, storageFails) ==
    /\ lookupResult' =
            [asked |-> TRUE, query |-> query,
             storageFailed |-> storageFails /\ query.type \in QueryTypes,
             threw |-> lookup(store, query, storageFails).throws,
             value |-> lookup(store, query, storageFails).value]
    /\ store' = lookup(store, query, storageFails).collection
    /\ UNCHANGED <<now, uniqueIndex, outcome, everSpent, tmInput, tmResult, submit, wallet, earlySpent, poll, codec>>

\* An admit, spend or evict notification for key whose storage call
\* (insertOne, updateOne, deleteOne) rejects because the database cannot be
\* reached: nothing is written, the handler's catch logs the error.
NotificationStorageFails(key) ==
    /\ outcome' = "StorageFailure"
    /\ UNCHANGED <<store, now, uniqueIndex, everSpent, tmInput, tmResult, lookupResult,
                   submit, wallet, earlySpent, poll, codec>>

NextLookup ==
    \/ \E k \in Keys : outputAdmittedByTopic(k[1], k[2])
    \/ \E k \in Keys : SubmitTokenOutput(k[1], k[2])
    \/ \E k \in Keys : outputSpent(k[1], k[2])
    \/ \E q \in Queries, storageFails \in BOOLEAN : Lookup(q, storageFails)
    \/ \E k \in Keys : NotificationStorageFails(k)

SpecLookup == Init /\ [][NextLookup]_vars

NextFresh == Next \/ EnsureIndexes

SpecFresh == InitFresh /\ [][NextFresh]_vars

(***************************************************************************)
(* The topic manager on its own, over transactions drawn from a set of      *)
(* decoded outputs.                                                        *)
(***************************************************************************)
CandidateFieldLists ==
    {<<f1, f2, f3, f4>> \o rest :
        f1 \in {TOKEN, LockingKey},
        f2 \in {TokenIdBytes(1), TokenIdBytes(2), Zeros(31), Zeros(32) \o <<1>>},
        f3 \in {AmountLE8(0), AmountLE8(300), AmountLE8(1000000), AmountLE8(300) \o <<0>>},
        f4 \in {GooseJson, OwnerKey, NotJson, EmptyObjJson},
        rest \in {<<>>, <<EmptyObjJson>>, <<NotJson>>, <<OwnerKey>>}}

Undecodable == [script |-> <<76, 5>>, decodes |-> FALSE, fields |-> <<>>, satoshis |-> 1]

CandidateOutputs == {Output(<<1>>, fields) : fields \in CandidateFieldLists} \cup {Undecodable}

\* Outputs that stand for the cases of a transaction with several outputs.
MixedOutputs ==
    { Output(<<1>>, <<TOKEN, TokenIdBytes(1), AmountLE8(300), GooseJson, OwnerKey>>),
      Output(<<1>>, <<TOKEN, TokenIdBytes(1), AmountLE8(0), GooseJson, OwnerKey>>),
      Output(<<1>>, <<TOKEN, TokenIdBytes(1), AmountLE8(1000000), OwnerKey>>),
      Undecodable }

CandidateTransactions ==
    [parses : BOOLEAN,
     outputs : {<<o>> : o \in CandidateOutputs} \cup {<<a, b>> : a \in MixedOutputs, b \in MixedOutputs}]

InitValidate ==
    /\ store = <<>>
    /\ now = 0
    /\ uniqueIndex = TRUE
    /\ outcome = "none"
    /\ everSpent = {}
    /\ tmInput \in CandidateTransactions
    /\ tmResult = NotRun
    /\ lookupResult = NotAsked
    /\ submit = NoRequest
    /\ wallet = NoTransfer
    /\ earlySpent = {}
    /\ poll = NoSubmission
    /\ codec = NoAmount

\* One call of identifyAdmissibleOutputs(beef, previousCoins).
IdentifyAdmissibleOutputs ==
    /\ ~tmResult.returned /\ ~tmResult.threw
    /\ tmResult' = [outputsToAdmit |-> identifyAdmissibleOutputs(tmInput).outputsToAdmit,
                    coinsToRetain |-> identifyAdmissibleOutputs(tmInput).coinsToRetain,
                    returned |-> ~identifyAdmissibleOutputs(tmInput).throws,
                    threw |-> identifyAdmissibleOutputs(tmInput).throws]
    /\ UNCHANGED <<store, now, uniqueIndex, outcome, everSpent, tmInput, lookupResult, submit, wallet, earlySpent, poll, codec>>

NextValidate == IdentifyAdmissibleOutputs

SpecValidate == InitValidate /\ [][NextValidate]_vars

(***************************************************************************)
(* Properties.                                                             *)
(***************************************************************************)
TokenIds == {ToHex(TokenIdBytes(1)), ToHex(TokenIdBytes(2))}

KeyOf(record) == <<record.txid, record.outputIndex>>

RecordsOf(key) == {j \in 1..Len(store) : KeyOf(store[j]) = key}

\* The documents of a token that are unspent, as positions of the collection.
UnspentPositions(collection, tokenId) ==
    {j \in 1..Len(collection) : collection[j].tokenId = tokenId /\ ~collection[j].spent}

RECURSIVE AmountOver(_, _)
AmountOver(collection, positions) ==
    IF positions = {} THEN 0
    ELSE LET j == CHOOSE x \in positions : TRUE
         IN collection[j].amount + AmountOver(collection, positions \ {j})

\* A step in which an admission of key called storeToken.
StoreTokenCalled(key) ==
    /\ outcome' # "skipped"
    /\ Len(store') >= Len(store)
    /\ outputAdmittedByTopic(key[1], key[2]) \/ SubmitTokenOutput(key[1], key[2])

C2_BalanceInvariant ==
    \A tokenId \in TokenIds :
        LET balance == getBalance(store, tokenId)
            unspent == UnspentPositions(store, tokenId)
            found == findUnspentByTokenId(store, tokenId)
        IN /\ balance.totalAmount = AmountOver(store, unspent)
           /\ Len(found) = Cardinality(unspent)
           /\ \A j \in unspent : \E f \in 1..Len(found) : found[f] = store[j]
           /\ Len(balance.utxos) = Cardinality(unspent)
           /\ \A j \in unspent :
                \E u \in 1..Len(balance.utxos) : balance.utxos[u] = Utxo(store[j])

\* A token with two unspent records worth 1000 beside a spent one.
C2_Witness ==
    \E tokenId \in TokenIds :
        /\ getBalance(store, tokenId).totalAmount = 1000
        /\ Len(getBalance(store, tokenId).utxos) = 2
        /\ \E j \in 1..Len(store) : store[j].tokenId = tokenId /\ store[j].spent

\* C3: markAsSpent on an unspent record of token T lowers getBalance(T) by
\* that record's amount and leaves the balance of every other tokenId as it was.
C3_SpendLowersBalance ==
    [][\A key \in Keys :
        LET j == FirstMatch(store, key[1], key[2]) IN
        (outputSpent(key[1], key[2]) /\ j # 0 /\ ~store[j].spent)
            => /\ getBalance(store', store[j].tokenId).totalAmount
                    = getBalance(store, store[j].tokenId).totalAmount - store[j].amount
               /\ \A other \in TokenIds \ {store[j].tokenId} :
                    getBalance(store', other) = getBalance(store, other)]_vars

\* 700 and 300 of one token were admitted and the 300 has been marked spent:
\* the balance is 700.
C3_Witness ==
    \E tokenId \in TokenIds :
        /\ \E j \in 1..Len(store) :
              store[j].tokenId = tokenId /\ store[j].amount = 300 /\ store[j].spent
        /\ \E j \in 1..Len(store) :
              store[j].tokenId = tokenId /\ store[j].amount = 700 /\ ~store[j].spent
        /\ getBalance(store, tokenId).totalAmount = 700
        /\ \E other \in TokenIds \ {tokenId} : getBalance(store, other).totalAmount > 0

HasSpent(collection, key) ==
    \E j \in 1..Len(collection) : KeyOf(collection[j]) = key /\ collection[j].spent

HasUnspent(collection, key) ==
    \E j \in 1..Len(collection) : KeyOf(collection[j]) = key /\ ~collection[j].spent

\* C4 as claimed: once the record of a key has been spent, no later state
\* holds an unspent record for that key.
C4_SpentNeverUnspentAgain ==
    \A key \in everSpent : ~HasUnspent(store, key)

\* C4 as amended: a spent record stays spent for as long as it exists; no
\* step but the eviction of its key takes it away, and no step resets it.
C4_SpentUntilEvicted ==
    [][\A key \in Keys :
        HasSpent(store, key)
            => \/ HasSpent(store', key) /\ ~HasUnspent(store', key)
               \/ store' = deleteToken(store, key[1], key[2]) /\ ~HasKey(store', key[1], key[2])]_vars

\* A record is spent, stayed spent through a refused re-admission, and the
\* spent record of another key has been evicted.
C4_Witness ==
    /\ outcome = "DuplicateOutput"
    /\ \E key \in Keys : HasSpent(store, key)
    /\ \E key \in everSpent : ~HasKey(store, key[1], key[2])

\* Every record the queries can return for a token.
Returned(collection, tokenId) ==
    {getHistory(collection, tokenId, DefaultHistoryLimit)[h] :
        h \in 1..Len(getHistory(collection, tokenId, DefaultHistoryLimit))}
    \cup {findUnspentByTokenId(collection, tokenId)[f] :
        f \in 1..Len(findUnspentByTokenId(collection, tokenId))}

UtxosOf(balance) == {balance.utxos[u] : u \in 1..Len(balance.utxos)}

OtherPositions(collection, tokenId, key) ==
    {j \in UnspentPositions(collection, tokenId) : KeyOf(collection[j]) # key}

C6_OneSurvivor ==
    \A key \in Keys : Cardinality(RecordsOf(key)) <= 1

Admitted(i) == \E a \in 1..Len(tmResult.outputsToAdmit) : tmResult.outputsToAdmit[a] = i

\* C7: an output whose amount field decodes to 0 is never in outputsToAdmit.
C7_ZeroAmountNeverAdmitted ==
    tmResult.returned =>
        \A i \in 0..(Len(tmInput.outputs) - 1) :
            LET fields == tmInput.outputs[i + 1].fields IN
            (Len(fields) >= 3 /\ parseAmount(fields[3]) = 0) => ~Admitted(i)

\* C8: every stored record has a numeric amount > 0.
C8_StoredAmountPositive ==
    \A j \in 1..Len(store) : store[j].amount # NaN /\ store[j].amount > 0

\* C9: an output whose other fields pass every check of /submit-token and
\* whose metadata field does not parse as JSON is never stored.
C9_MetadataAllOrNothing ==
    \A j \in 1..Len(store) :
        LET fields == OutputAt(KeyOf(store[j])).fields IN
        (SubmitAccepts(fields) /\ Len(fields) >= 6) => ~JSONParse(ToUTF8(fields[6])).throws

\* The four required fields and nothing else.
FourRequiredFields(fields) ==
    /\ Len(fields) = 4
    /\ fields[1] = TOKEN
    /\ Len(fields[2]) = 32
    /\ Len(fields[3]) = 8 /\ parseAmount(fields[3]) > 0
    /\ Len(fields[4]) = 33

\* C10: an output with exactly the four required fields (protocol, 32-byte
\* tokenId, 8-byte amount > 0, 33-byte owner key) and no metadata is admitted.
C10_FourFieldsAccepted ==
    (tmResult.returned /\ tmInput.parses) =>
        \A i \in 0..(Len(tmInput.outputs) - 1) :
            (tmInput.outputs[i + 1].decodes /\ FourRequiredFields(tmInput.outputs[i + 1].fields))
                => Admitted(i)

\* The checks of identifyAdmissibleOutputs that do not read the tokenId.
ValidBesideTokenId(output) ==
    /\ output.decodes
    /\ Len(output.fields) >= 5
    /\ output.fields[1] = TOKEN
    /\ Len(output.fields[3]) = 8 /\ parseAmount(output.fields[3]) > 0
    /\ output.fields[4] = GooseJson

\* C11: an output whose tokenId field is not exactly 32 bytes is never in
\* outputsToAdmit, whatever the fields around it.
C11_TokenIdLength ==
    tmResult.returned =>
        \A i \in 0..(Len(tmInput.outputs) - 1) :
            LET fields == tmInput.outputs[i + 1].fields IN
            (Len(fields) >= 2 /\ Len(fields[2]) # 32) => ~Admitted(i)

\* An output that passes every other check with a 31- or 33-byte tokenId
\* went through a call that parsed its transaction, and was left out.
C11_Witness ==
    /\ tmResult.returned /\ tmInput.parses
    /\ \E i \in 0..(Len(tmInput.outputs) - 1) :
          /\ ValidBesideTokenId(tmInput.outputs[i + 1])
          /\ Len(tmInput.outputs[i + 1].fields[2]) \in {31, 33}
          /\ ~Admitted(i)

\* C12: an output whose amount field is not exactly 8 bytes long is never
\* in outputsToAdmit.
C12_AmountLength ==
    tmResult.returned =>
        \A i \in 0..(Len(tmInput.outputs) - 1) :
            LET fields == tmInput.outputs[i + 1].fields IN
            (Len(fields) >= 3 /\ Len(fields[3]) # 8) => ~Admitted(i)

\* C13: an admitted output carries a 33-byte owner key, in field 3 (the
\* documented layout) or in field 4 (the layout of /submit-token).
C13_OwnerKeyLength ==
    tmResult.returned =>
        \A i \in 0..(Len(tmInput.outputs) - 1) :
            LET fields == tmInput.outputs[i + 1].fields IN
            Admitted(i) => (Len(fields[4]) = 33 \/ Len(fields[5]) = 33)

\* The result of the call on output i taken alone.
AdmittedAlone(i) ==
    identifyAdmissibleOutputs(
        [parses |-> TRUE, outputs |-> <<tmInput.outputs[i + 1]>>]).outputsToAdmit = <<0>>

\* C14: for a transaction that parses, i is in outputsToAdmit exactly when
\* output i taken alone is admitted, whatever happens to the other outputs.
C14_FullScan ==
    (tmResult.returned /\ tmInput.parses) =>
        \A i \in 0..(Len(tmInput.outputs) - 1) : Admitted(i) <=> AdmittedAlone(i)

\* The first output could not be decoded and the second one was admitted.
C14_Witness ==
    /\ tmResult.returned
    /\ Len(tmInput.outputs) = 2
    /\ ~tmInput.outputs[1].decodes
    /\ tmResult.outputsToAdmit = <<1>>

\* C15: the call never ends in an error: it returns with coinsToRetain
\* empty and only accepted outputs in outputsToAdmit, none when the
\* transaction cannot be parsed.
C15_NeverRaises ==
    /\ ~tmResult.threw
    /\ tmResult.returned =>
        /\ tmResult.coinsToRetain = <<>>
        /\ ~tmInput.parses => tmResult.outputsToAdmit = <<>>
        /\ \A a \in 1..Len(tmResult.outputsToAdmit) :
              /\ tmResult.outputsToAdmit[a] \in 0..(Len(tmInput.outputs) - 1)
              /\ OutputAccepted(tmInput.outputs[tmResult.outputsToAdmit[a] + 1])

\* The call returned an empty result for a transaction that does not parse
\* and whose outputs would have been admitted.
C15_Witness ==
    /\ tmResult.returned /\ ~tmInput.parses
    /\ tmResult.outputsToAdmit = <<>>
    /\ \E i \in 1..Len(tmInput.outputs) : OutputAccepted(tmInput.outputs[i])

\* C16: outputsToAdmit holds indices of [0, number of outputs) in strictly
\* ascending order, so none twice.
C16_NoDuplicateAdmission ==
    tmResult.returned =>
        /\ \A a \in 1..Len(tmResult.outputsToAdmit) :
              tmResult.outputsToAdmit[a] \in 0..(Len(tmInput.outputs) - 1)
        /\ \A a, b \in 1..Len(tmResult.outputsToAdmit) :
              a < b => tmResult.outputsToAdmit[a] < tmResult.outputsToAdmit[b]

\* Both outputs of a transaction were admitted, in order.
C16_Witness == tmResult.returned /\ tmResult.outputsToAdmit = <<0, 1>>

\* C17: a question whose type is none of balance, balances, history, utxos
\* is answered with an UnsupportedQuery error, which no successful query
\* with an empty result gives.
C17_UnknownQueryTypedError ==
    (lookupResult.asked /\ lookupResult.query.type \notin QueryTypes)
        => lookupResult.threw \/ lookupResult.value # <<>>

\* C18: when the storage call of a balance, balances, history or utxos
\* lookup fails, lookup returns [] without throwing, and no lookup changes
\* a stored record.
C18_StorageFailureEmptyResult ==
    /\ [](lookupResult.storageFailed => ~lookupResult.threw /\ lookupResult.value = <<>>)
    /\ [][lookupResult' # lookupResult => store' = store]_vars

\* A balance question about a token with unspent records came back empty
\* because its storage call failed.
C18_Witness ==
    /\ lookupResult.storageFailed
    /\ lookupResult.query.type = "balance"
    /\ lookupResult.value = <<>> /\ ~lookupResult.threw
    /\ findUnspentByTokenId(store, lookupResult.query.tokenId) # <<>>

\* C19: every markAsSpent for a key leaves the store as one call does: the
\* record of the key has spent = true, every other record is as it was, and
\* a call for a record that is already spent changes nothing.
C19_MarkSpentIdempotent ==
    [][\A key \in Keys :
        outputSpent(key[1], key[2])
            => /\ Len(store') = Len(store)
               /\ \A j \in 1..Len(store) :
                    store'[j] = IF KeyOf(store[j]) = key
                                THEN [store[j] EXCEPT !.spent = TRUE]
                                ELSE store[j]
               /\ HasSpent(store, key) => store' = store]_vars

\* After the last spend notification the store holds a spent record beside
\* an unspent record of the same transaction.
C19_Witness ==
    /\ outcome = "spent"
    /\ \E key, other \in Keys :
          /\ key[1] = other[1]
          /\ HasSpent(store, key)
          /\ HasUnspent(store, other)

\* C20: markAsSpent for a key without a record leaves the store as it was:
\* no record is created and none is changed.
C20_MarkSpentAbsentKey ==
    [][\A key \in Keys :
        (outputSpent(key[1], key[2]) /\ ~HasKey(store, key[1], key[2]))
            => store' = store]_vars

\* Spend notifications arrived, none for a key with a record: nothing was
\* ever marked spent and the records are there.
C20_Witness ==
    /\ outcome = "spent"
    /\ everSpent = {}
    /\ Len(store) >= 1
    /\ \A j \in 1..Len(store) : ~store[j].spent

\* The owner key the path that admits an output reads from it.
AdmittedOwnerKey(key) ==
    IF SubmitRead[key].accepted THEN SubmitRead[key].ownerKey
    ELSE IF LookupRead[key].throws THEN <<>>
    ELSE LookupRead[key].ownerKey

\* The unspent records of a token that were admitted with owner key K.
OwnedPositions(collection, tokenId, K) ==
    {j \in UnspentPositions(collection, tokenId) : AdmittedOwnerKey(KeyOf(collection[j])) = K}

\* C22: the balances returned for ownerKey = K are computed from the unspent
\* records admitted with owner key K and from no other record, and every
\* record keeps the owner key it was admitted with.
C22_BalancesPartitionedByOwner ==
    /\ \A j \in 1..Len(store) :
          /\ "ownerKey" \in DOMAIN store[j]
          /\ store[j].ownerKey = AdmittedOwnerKey(KeyOf(store[j]))
    /\ \A K \in {ToHex(OwnerKey), ToHex(RecipientKey)} :
          \A g \in 1..Len(tokenBalances(store, K)) :
              LET balance == tokenBalances(store, K)[g] IN
              /\ \A u \in UtxosOf(balance) : AdmittedOwnerKey(<<u.txid, u.outputIndex>>) = K
              /\ balance.totalAmount
                    = AmountOver(store, OwnedPositions(store, balance.tokenId, K))

HistoryLimits == {0, 1, 2, DefaultHistoryLimit}

\* C23: getHistory(tokenId, limit) returns records of that tokenId only,
\* spent or not, newest first, never more than limit of them, and those it
\* leaves out are no newer than those it returns; a history question without
\* a limit is answered with at most 50 records.
C23_HistoryBoundedNewestFirst ==
    \A tokenId \in TokenIds :
        /\ Len(HistoryAnswer(store, [type |-> "history", tokenId |-> tokenId, limit |-> NoLimit]))
                <= DefaultHistoryLimit
        /\ \A limit \in HistoryLimits :
            LET history == getHistory(store, tokenId, limit)
                all == {j \in 1..Len(store) : store[j].tokenId = tokenId}
                returned == {j \in all : \E h \in 1..Len(history) : history[h] = store[j]}
            IN /\ \A h \in 1..Len(history) : history[h].tokenId = tokenId
               /\ \A h \in 1..Len(history) : \E j \in all : history[h] = store[j]
               /\ \A h \in 1..(Len(history) - 1) :
                     history[h].createdAt >= history[h + 1].createdAt
               /\ Len(history) <= limit
               /\ Len(history) = limit \/ returned = all
               /\ \A j \in all \ returned :
                     \A h \in 1..Len(history) : store[j].createdAt <= history[h].createdAt

SummariesOf(collection, tokenId) ==
    {g \in 1..Len(getAllBalances(collection)) : getAllBalances(collection)[g].tokenId = tokenId}

\* C24: getAllBalances has exactly one summary for every tokenId with an
\* unspent record and none for any other, and a summary's totalAmount is the
\* sum over the token's unspent records and getBalance's totalAmount.
C24_OneSummaryPerToken ==
    /\ \A tokenId \in TokenIds :
          Cardinality(SummariesOf(store, tokenId))
              = IF UnspentPositions(store, tokenId) = {} THEN 0 ELSE 1
    /\ \A g \in 1..Len(getAllBalances(store)) :
          LET summary == getAllBalances(store)[g] IN
          /\ summary.tokenId \in TokenIds
          /\ summary.totalAmount
                = AmountOver(store, UnspentPositions(store, summary.tokenId))
          /\ summary.totalAmount = getBalance(store, summary.tokenId).totalAmount

\* One token has unspent records, every record of the other one is spent:
\* the only summary is the first token's.
C24_Witness ==
    /\ Len(getAllBalances(store)) = 1
    /\ getAllBalances(store)[1].totalAmount > 0
    /\ \E j \in 1..Len(store) :
          store[j].spent /\ store[j].tokenId # getAllBalances(store)[1].tokenId

\* C21: an admission of an output that is already stored is a successful
\* no-op for the caller: a /submit-token request that met an already stored
\* output is answered with success.
C21_ReadmissionReportedAsSuccess ==
    (submit.status # 0 /\ submit.duplicates >= 1) => submit.status = 200

\* C27: a first submission of the transaction whose output 1 has the mint
\* layout (locking key, 'TOKEN', 32-byte tokenId, amount 700, 33-byte owner
\* key, JSON metadata) is answered with success and tokensFound >= 1, the
\* output is stored, and the balances list its tokenId with totalAmount 700.
C27_MintIndexedEndToEnd ==
    (submit.txid = "tx2" /\ submit.status # 0 /\ submit.duplicates = 0
            /\ ~HasKey(store, "tx1", 0) /\ ~HasKey(store, "tx1", 1))
        => /\ submit.status = 200
           /\ submit.tokensFound >= 1
           /\ HasUnspent(store, <<"tx2", 1>>)
           /\ \E g \in 1..Len(tokenBalances(store, ToHex(RecipientKey))) :
                 /\ tokenBalances(store, ToHex(RecipientKey))[g].tokenId = ToHex(TokenIdBytes(2))
                 /\ tokenBalances(store, ToHex(RecipientKey))[g].totalAmount = 700

\* C25: when the storage call of an admit, spend or evict notification
\* fails, the caller that delivered the notification sees it fail.
C25_StorageFailureSurfaced ==
    outcome = "StorageFailure" => NotificationResult(outcome) = "rejected"

\* A step that stores one new unspent record at the end of the collection.
Stored(before, after) ==
    /\ Len(after) = Len(before) + 1
    /\ SubSeq(after, 1, Len(before)) = before
    /\ ~after[Len(after)].spent

\* C30: a lookup, of whatever type and whether or not its storage call
\* fails, leaves every record as it was, and the store changes only by a
\* storeToken, a markAsSpent or a deleteToken.
C30_ReadsLeaveStoreUnchanged ==
    [][/\ lookupResult' # lookupResult => store' = store
       /\ store' # store =>
            \/ Stored(store, store')
            \/ \E key \in Keys :
                  \/ store' = markAsSpent(store, key[1], key[2])
                  \/ store' = deleteToken(store, key[1], key[2])]_vars

\* A history question was answered with two records while the store held
\* spent and unspent records.
C30_Witness ==
    /\ lookupResult.asked /\ lookupResult.query.type = "history"
    /\ Len(lookupResult.value) >= 2
    /\ \E j, k \in 1..Len(store) : store[j].spent /\ ~store[k].spent

\* The records of the UTXOs a transfer read are spent in the collection.
ConsumedSpent(collection, utxos) ==
    \A u \in 1..Len(utxos) :
        \A j \in 1..Len(collection) :
            SameKey(collection[j], utxos[u].txid, utxos[u].outputIndex) => collection[j].spent

\* C28: once a transfer has been indexed (every output it built is
\* stored), the UTXOs it consumed are spent and the unspent amounts of its
\* tokenId add up to what they did before the transfer.
C28_TransferConservesSupply ==
    [][(wallet' # wallet /\ wallet'.tokensFound = Len(wallet'.scripts)) =>
            /\ ConsumedSpent(store', wallet'.utxos)
            /\ SumAmounts(findUnspentByTokenId(store', wallet'.tokenId), 0)
                    = SumAmounts(findUnspentByTokenId(store, wallet'.tokenId), 0)]_vars

\* The token layout: push(lockingKey) DROP push('TOKEN') push(tokenId)
\* push(amount) push(ownerKey) [push(metadata)] DROP.
TokenLayout(script) ==
    /\ Len(script) \in {7, 8}
    /\ script[1].op = "push" /\ Len(script[1].data) = 33
    /\ script[2] = OP_DROP
    /\ script[3] = Push(TOKEN)
    /\ \A j \in 4..(Len(script) - 1) : script[j].op = "push"
    /\ Len(script[4].data) = 32 /\ Len(script[5].data) = 8 /\ Len(script[6].data) = 33
    /\ script[Len(script)] = OP_DROP

\* C29: every script the wallet built for a transfer or change output
\* follows the token layout.
C29_TransferScriptLayout ==
    \A j \in 1..Len(wallet.scripts) : TokenLayout(wallet.scripts[j])

\* after is before with the spent flag of the record of key set and nothing
\* else touched.
OnlySpentFlag(before, after, key) ==
    /\ Len(after) = Len(before)
    /\ \A j \in 1..Len(before) :
            after[j] = IF KeyOf(before[j]) = key
                       THEN [before[j] EXCEPT !.spent = TRUE]
                       ELSE before[j]

\* after is before without the record of key, the others in place.
OnlyRemoved(before, after, key) ==
    after = SelectSeq(before, LAMBDA r : KeyOf(r) # key)

\* The fields of a record that are fixed at its creation.
CreationFields(record) ==
    <<record.tokenId, record.amount, record.lockingScript, record.satoshis, record.createdAt>>

\* C31: a spend notification changes only the spent flag of its record, an
\* eviction removes only its record, and as long as a record is stored its
\* tokenId, amount, lockingScript, satoshis and createdAt stay what they
\* were at creation.
C31_SpendAndEvictFrame ==
    [][/\ \A key \in Keys :
            /\ outputSpent(key[1], key[2]) => OnlySpentFlag(store, store', key)
            /\ outputEvicted(key[1], key[2]) => OnlyRemoved(store, store', key)
       /\ \A j \in 1..Len(store) : \A i \in 1..Len(store') :
            KeyOf(store'[i]) = KeyOf(store[j])
                => CreationFields(store'[i]) = CreationFields(store[j])]_vars

\* A record created earlier is spent beside another record, and a spent
\* record has been evicted.
C31_Witness ==
    /\ \E j, k \in 1..Len(store) :
            j # k /\ store[j].spent /\ store[j].createdAt < now /\ store[j].amount > 0
    /\ \E key \in everSpent : RecordsOf(key) = {}

\* The record of key is among the utxos of its token's balance.
Counted(collection, key) ==
    \E j \in 1..Len(collection) :
        /\ KeyOf(collection[j]) = key
        /\ \E u \in UtxosOf(getBalance(collection, collection[j].tokenId)) :
                <<u.txid, u.outputIndex>> = key

\* C32: a spend notification for a key without a record writes nothing;
\* when the key is admitted afterwards its record is created unspent, and
\* it stays unspent and counted in the balance until a spend notification
\* for the key arrives.
C32_EarlySpendNotRemembered ==
    [][\A key \in Keys :
        /\ (outputSpentObserved(key[1], key[2]) /\ ~HasKey(store, key[1], key[2]))
                => store' = store
        /\ (key \in earlySpent /\ ~HasKey(store, key[1], key[2])
                /\ HasKey(store', key[1], key[2]))
                => HasUnspent(store', key) /\ Counted(store', key)
        /\ (key \in earlySpent /\ HasUnspent(store, key)
                /\ ~outputSpentObserved(key[1], key[2]))
                => HasUnspent(store', key) /\ Counted(store', key)]_vars

\* An output whose spend arrived first has been admitted and is unspent,
\* beside a spent record.
C32_Witness ==
    /\ \E key \in earlySpent : HasUnspent(store, key) /\ Counted(store, key)
    /\ \E j \in 1..Len(store) : store[j].spent

\* C33: what outputAdmittedByTopic stores for an admitted output is what
\* identifyAdmissibleOutputs checked: the tokenId of fields[1], the amount
\* of fields[2] and the metadata it parsed from fields[3].
C33_ValidatorAndIndexAgree ==
    [][\A key \in TopicAdmitted :
        (outputAdmittedByTopic(key[1], key[2]) /\ outcome' = "stored")
            => LET fields == OutputAt(key).fields
                   record == store'[Len(store')]
               IN /\ record.tokenId = ToHex(fields[2])
                  /\ record.amount = readUInt64LEBn(fields[3])
                  /\ record.metadata = JSONParse(ToUTF8(fields[4])).value]_vars

\* The token amount a transfer script carries.
Carried(script) == parseAmount(PushedData(script)[4])

\* C34: a transfer fails with 'No UTXOs found' exactly when no UTXO was
\* fetched and with 'Insufficient balance' when their total is below the
\* amount, building no output; otherwise the recipient output carries the
\* amount, a change output exists exactly when total - amount > 0 and
\* carries that difference, and the outputs add up to the total fetched.
C34_TransferOutputs ==
    LET total == SumAmounts(wallet.utxos, 0) IN
    /\ wallet.error = "No UTXOs found"
            => Len(wallet.utxos) = 0 /\ wallet.scripts = <<>> /\ ~wallet.done
    /\ wallet.error = "Insufficient balance"
            => /\ Len(wallet.utxos) > 0 /\ total < wallet.amount
               /\ wallet.scripts = <<>> /\ ~wallet.done
    /\ wallet.done
            => /\ wallet.error = "none"
               /\ Len(wallet.utxos) > 0 /\ total >= wallet.amount
               /\ Len(wallet.scripts) = IF total - wallet.amount > 0 THEN 2 ELSE 1
               /\ Carried(wallet.scripts[1]) = wallet.amount
               /\ Len(wallet.scripts) = 2
                    => Carried(wallet.scripts[2]) = total - wallet.amount
               /\ SumAmounts([j \in 1..Len(wallet.scripts) |->
                                [amount |-> Carried(wallet.scripts[j])]], 0) = total

\* A transfer of 100 out of 300 built a recipient and a change output.
C34_Witness ==
    /\ wallet.done /\ Len(wallet.scripts) = 2
    /\ wallet.amount = 100 /\ Carried(wallet.scripts[2]) = 200

\* C35: submitToOverlay polls at most 6 times and not again after a poll
\* succeeded, posts the txid only after a successful poll, never throws to
\* its caller, and every call returns.
C35_SubmitToOverlayReturns ==
    /\ [](poll.attempt <= 6)
    /\ [](poll.posted => poll.txFound)
    /\ [](poll.state # "thrown")
    /\ [][poll.txFound => poll'.attempt <= poll.attempt]_vars
    /\ (poll.state \in {"polling", "posting", "awaiting"}) ~> (poll.state = "returned")

\* A call gave up after six polls without the transaction and returned.
C35_Witness ==
    poll.state = "returned" /\ poll.attempt = 6 /\ ~poll.txFound /\ ~poll.posted

\* Byte i (0 the least significant) of the amount <<hi, lo>>.
ByteOf(n, i) ==
    IF i < 3 THEN (n[2] \div Pow2(8 * i)) % 256
    ELSE IF i = 3 THEN (n[2] \div Pow2(24)) + 16 * (n[1] % 16)
    ELSE (n[1] \div Pow2(8 * i - 28)) % 256

\* C36: the encoder yields exactly 8 bytes, each in 0..255, least
\* significant first, and parsing them gives the amount back; on amounts
\* the model's integers hold, AmountLE8 and parseAmount say the same.
C36_AmountRoundTrip ==
    /\ codec.stage \in {"encoded", "parsed"}
            => /\ Len(codec.buffer) = 8
               /\ \A i \in 0..7 :
                    /\ codec.buffer[i + 1] \in 0..255
                    /\ codec.buffer[i + 1] = ByteOf(codec.amount, i)
               /\ codec.amount[1] = 0
                    => /\ codec.buffer = AmountLE8(codec.amount[2])
                       /\ parseAmount(codec.buffer) = codec.amount[2]
    /\ codec.stage = "parsed" => codec.parsed = codec.amount

\* 2^53 - 1 has been encoded into seven bytes of 255 and one of 31, and
\* parsed back.
C36_Witness ==
    /\ codec.stage = "parsed"
    /\ codec.amount = <<Pow2(25) - 1, Limb - 1>>
    /\ codec.buffer = <<255, 255, 255, 255, 255, 255, 31, 0>>
    /\ codec.parsed = codec.amount

\* name, symbol and decimals as the first unspent record of the token in
\* store order gives them: absent and 0 without such a record or without
\* metadata on it.
FromFirstUnspent(collection, tokenId) ==
    LET unspent == UnspentPositions(collection, tokenId)
        first == CHOOSE j \in unspent : \A k \in unspent : j <= k
    IN IF unspent = {} \/ collection[first].metadata.kind # "object"
       THEN <<Undefined, Undefined, 0>>
       ELSE <<collection[first].metadata.name, collection[first].metadata.symbol,
              IF collection[first].metadata.decimals < 0 THEN 0
              ELSE collection[first].metadata.decimals>>

\* C37: getBalance and getAllBalances take name, symbol and decimals from
\* the first unspent record of the token only, whatever metadata its other
\* records carry.
C37_MetadataFromFirstUnspent ==
    /\ \A tokenId \in TokenIds :
            LET b == getBalance(store, tokenId)
            IN <<b.name, b.symbol, b.decimals>> = FromFirstUnspent(store, tokenId)
    /\ \A g \in 1..Len(getAllBalances(store)) :
            LET b == getAllBalances(store)[g]
            IN <<b.name, b.symbol, b.decimals>> = FromFirstUnspent(store, b.tokenId)

\* The first record is spent and carries the goose metadata, the first
\* unspent one carries none and the last carries other metadata: the
\* balance has no name.
C37_Witness ==
    /\ Len(store) = 3 /\ outcome = "spent"
    /\ store[1].spent /\ store[1].metadata = GooseObject
    /\ ~store[2].spent /\ store[2].metadata = NoMetadata
    /\ ~store[3].spent /\ store[3].metadata = DuckObject
    /\ getBalance(store, store[2].tokenId).name = Undefined
    /\ getBalance(store, store[2].tokenId).totalAmount = 500

====
